---- MODULE Spec2Model ----
(***************************************************************************)
(* readContract (src/src/actions/public/readContract.ts): a read-only      *)
(* contract call.  One invocation destructures its parameters, encodes the *)
(* calldata, awaits the call executor, and then either decodes the         *)
(* returned bytes or hands the caught error to getContractError.           *)
(*                                                                         *)
(* Several invocations run interleaved around the single suspension point  *)
(* (the await of call).  Every invocation keeps an event log of the        *)
(* collaborators it invoked (encodeFunctionData, call,                     *)
(* decodeFunctionResult, getContractError), in the order it invoked them,  *)
(* and the list of terminal outcomes its caller observed.                  *)
(*                                                                         *)
(* Hex strings are byte sequences (sequences of 0..255); '0x' is <<>>.     *)
(* Objects are functions from field names to values; an absent field is a  *)
(* field outside the DOMAIN.                                               *)
(***************************************************************************)
EXTENDS Integers, Sequences, FiniteSets, TLC

\* Number of invocations of readContract issued by the caller (fan-out).
NumInvocations == 2

Invocations == 1..NumInvocations

VARIABLES
    pc,          \* position of each invocation: idle, pending, settled, done
    parameters,  \* the parameters object each invocation was given
    promise,     \* the promise returned by call(client, request)
    log,         \* per invocation: the collaborators invoked, in order
    outcomes     \* per invocation: what the caller observed (returned / threw)

vars == <<pc, parameters, promise, log, outcomes>>

----------------------------------------------------------------------------
(* Bytes and words *)

WordSize == 32

RECURSIVE Zeros(_)
Zeros(n) == IF n = 0 THEN <<>> ELSE <<0>> \o Zeros(n - 1)

\* Left-pad a byte sequence to one word.
PadLeft(b) == Zeros(WordSize - Len(b)) \o b

\* Big-endian bytes of n, len bytes wide.
RECURSIVE ToBytesBE(_, _)
ToBytesBE(n, len) ==
    IF len = 0 THEN <<>> ELSE ToBytesBE(n \div 256, len - 1) \o <<n % 256>>

\* The integer a big-endian byte sequence denotes.
RECURSIVE FromBytesBE(_)
FromBytesBE(b) ==
    IF Len(b) = 0 THEN 0
    ELSE FromBytesBE(SubSeq(b, 1, Len(b) - 1)) * 256 + b[Len(b)]

Word(n) == ToBytesBE(n, WordSize)

----------------------------------------------------------------------------
(* ABI descriptors *)

BalanceOf ==
    [type |-> "function", name |-> "balanceOf",
     inputs |-> <<"address">>, outputs |-> <<"uint256">>]

Pause ==
    [type |-> "function", name |-> "pause",
     inputs |-> <<>>, outputs |-> <<>>]

\* parseAbi(['function balanceOf(address) view returns (uint256)'])
AbiDoc == <<BalanceOf>>

AbiToken == <<Pause, BalanceOf>>

\* keccak256 of the canonical signature, leading 4 bytes, tabulated for the
\* signatures of the descriptors above.
Selector(descriptor) ==
    IF descriptor.name = "balanceOf" THEN <<112, 160, 130, 49>>
    ELSE <<132, 86, 203, 89>>

----------------------------------------------------------------------------
(* Errors *)

Err(name, data) == [name |-> name, data |-> data]

Failure(error) == [ok |-> FALSE, error |-> error]

Success(value) == [ok |-> TRUE, value |-> value]

----------------------------------------------------------------------------
(* Signature resolver *)

NameMatches(abi, functionName) ==
    {k \in 1..Len(abi) : abi[k].type = "function" /\ abi[k].name = functionName}

ArityMatches(abi, functionName, args) ==
    {k \in NameMatches(abi, functionName) : Len(abi[k].inputs) = Len(args)}

Min(S) == CHOOSE k \in S : \A m \in S : k <= m

resolve(abi, functionName, args) ==
    IF NameMatches(abi, functionName) = {}
    THEN Failure(Err("AbiFunctionNotFoundError", <<>>))
    ELSE IF ArityMatches(abi, functionName, args) = {}
    THEN Failure(Err("AbiEncodingError", <<>>))
    ELSE Success(abi[Min(ArityMatches(abi, functionName, args))])

----------------------------------------------------------------------------
(* Calldata encoder *)

\* An address argument is a 20-byte value.
ValidFor(abiType, value) == abiType = "address" => Len(value) = 20

RECURSIVE encodeAbiParameters(_, _)
encodeAbiParameters(inputs, args) ==
    IF Len(inputs) = 0 THEN <<>>
    ELSE PadLeft(Head(args)) \o encodeAbiParameters(Tail(inputs), Tail(args))

encodeFunctionData(in) ==
    LET r == resolve(in.abi, in.functionName, in.args) IN
    IF ~r.ok THEN r
    ELSE IF \E k \in 1..Len(in.args) : ~ValidFor(r.value.inputs[k], in.args[k])
    THEN Failure(Err("AbiEncodingError", <<>>))
    ELSE Success(Selector(r.value) \o encodeAbiParameters(r.value.inputs, in.args))

----------------------------------------------------------------------------
(* Result decoder *)

\* The decoded value: undefined for no outputs, the single value unwrapped
\* for one output, the ordered values otherwise.
DecodedValue(vals) ==
    [shape |-> IF Len(vals) = 0 THEN "undefined"
               ELSE IF Len(vals) = 1 THEN "single" ELSE "tuple",
     vals |-> vals]

decodeAbiParameters(outputs, data) ==
    [k \in 1..Len(outputs) |->
        FromBytesBE(SubSeq(data, (k - 1) * WordSize + 1, k * WordSize))]

decodeFunctionResult(in) ==
    LET r == resolve(in.abi, in.functionName, in.args) IN
    IF ~r.ok THEN r
    ELSE IF Len(in.data) < WordSize * Len(r.value.outputs)
    THEN Failure(Err("AbiDecodingError", in.data))
    ELSE Success(DecodedValue(decodeAbiParameters(r.value.outputs, in.data)))

----------------------------------------------------------------------------
(* Error translator *)

getContractError(error, context) ==
    [name |-> "ContractFunctionExecutionError",
     cause |-> error,
     abi |-> context.abi,
     contractAddress |-> context.address,
     args |-> context.args,
     functionName |-> context.functionName,
     docsPath |-> context.docsPath]

----------------------------------------------------------------------------
(* Inputs *)

\* args[0] of the documented example, 0xA0Cf798816D4b9b9866b5330EEa46a18382f251e
Holder ==
    <<160, 207, 121, 136, 22, 212, 185, 185, 134, 107,
      83, 48, 238, 164, 106, 24, 56, 47, 37, 30>>

\* A value that is no address: one byte short.
NotAnAddress == SubSeq(Holder, 1, 19)

Token == "0xFBA3912Ca04dd458c843e2EE08967fC04f3579c2"

Vault == "0x000000000000000000000000000000000000dEaD"

Sender == "0xf39Fd6e51aad88F6F4ce6aB8827279cffFb92266"

ContractFunctionParameters(abi, address, args, functionName) ==
    [abi |-> abi, address |-> address, args |-> args,
     functionName |-> functionName]

NoParameters == ContractFunctionParameters(<<>>, "", <<>>, "")

\* The parameter objects a caller passes.  Beside the contract function
\* parameters they carry account, blockNumber and blockTag; the cast of line
\* 108 also lets any further field through, here data and to.
ParamSet ==
    { ContractFunctionParameters(AbiDoc, Token, <<Holder>>, "balanceOf"),
      ContractFunctionParameters(AbiToken, Token, <<>>, "pause")
          @@ [account |-> Sender, blockNumber |-> 69420],
      ContractFunctionParameters(AbiToken, Vault, <<Holder>>, "balanceOf")
          @@ [blockTag |-> "safe"],
      ContractFunctionParameters(AbiDoc, Vault, <<Holder>>, "balanceOf")
          @@ [data |-> <<222, 173>>, to |-> Sender, account |-> Sender],
      ContractFunctionParameters(AbiDoc, Token, <<>>, "pause"),
      ContractFunctionParameters(AbiDoc, Token, <<>>, "balanceOf"),
      ContractFunctionParameters(AbiToken, Token, <<NotAnAddress>>, "balanceOf")
    }

\* What the call executor resolves with: { data }, data possibly undefined.
Undefined == [defined |-> FALSE, bytes |-> <<>>]

Hex(bytes) == [defined |-> TRUE, bytes |-> bytes]

CallData ==
    {Undefined, Hex(<<>>), Hex(Zeros(16)), Hex(Word(424122))}

\* What the call executor rejects with: a transport failure, an execution
\* revert carrying revert data, a cancellation.
CallErrors ==
    { Err("HttpRequestError", <<>>),
      Err("ExecutionRevertedError", <<8, 195, 121, 160>>),
      Err("AbortError", <<>>) }

----------------------------------------------------------------------------
(* readContract *)

Returned(value) == [kind |-> "returned", value |-> value]

Threw(error) == [kind |-> "threw", error |-> error]

\* What one stretch of the function body did: the collaborators it invoked
\* and the terminal outcomes it produced.
Did(events, out) == [log |-> events, outcomes |-> out]

\* A module-level slot overwritten by whichever invocation is in flight.
Locals_shared(i) ==
    LET others == {j \in Invocations : j # i /\ pc[j] \in {"pending", "settled"}}
    IN  IF others = {} THEN parameters[i] ELSE parameters[CHOOSE j \in others : TRUE]

\* The bindings abi, address, args, functionName, callRequest of line 104,
\* as the continuation after the await sees them.
Locals(i) == parameters[i]

\* const { abi, address, args, functionName, ...callRequest } = parameters
callRequest(p) ==
    [k \in DOMAIN p \ {"abi", "address", "args", "functionName"} |-> p[k]]

\* encodeFunctionData({ abi, args, functionName })
EncodeInput(p) ==
    [abi |-> p.abi, args |-> p.args, functionName |-> p.functionName]

\* The spread written last, so that the rest parameters win.
CallParameters_spreadLast(p, calldata) ==
    callRequest(p) @@ [data |-> calldata, to |-> p.address]

\* { ...callRequest, data: calldata, to: address }
CallParameters(p, calldata) ==
    [data |-> calldata, to |-> p.address] @@ callRequest(p)

\* A zero word standing in for an absent response.
OrEmpty_zeroWord(data) == IF data.defined THEN data.bytes ELSE Word(0)

\* data || '0x'
OrEmpty(data) == IF data.defined THEN data.bytes ELSE <<>>

\* The function name left out: the decoder falls back on the first item.
DecodeInput_firstItem(p, data) ==
    [abi |-> p.abi, args |-> p.args, functionName |-> p.abi[1].name,
     data |-> OrEmpty(data)]

\* decodeFunctionResult({ abi, args, functionName, data: data || '0x' })
DecodeInput(p, data) ==
    [abi |-> p.abi, args |-> p.args, functionName |-> p.functionName,
     data |-> OrEmpty(data)]

\* { abi, address, args, docsPath, functionName }
ContractErrorContext(p) ==
    [abi |-> p.abi, address |-> p.address, args |-> p.args,
     docsPath |-> "/docs/contract/readContract",
     functionName |-> p.functionName]

TranslateEvent(error, context) ==
    [step |-> "translate", error |-> error, context |-> context,
     out |-> getContractError(error, context)]

\* The caught error thrown again as it came.
Catch_rethrow(p, error) == Did(<<>>, <<Threw(error)>>)

\* The translated error built but not thrown: the function returns undefined.
Catch_swallow(p, error) ==
    Did(<<TranslateEvent(error, ContractErrorContext(p))>>,
        <<Returned(DecodedValue(<<>>))>>)

\* catch (error) { throw getContractError(error, { ... }) }
Catch(p, error) ==
    Did(<<TranslateEvent(error, ContractErrorContext(p))>>,
        <<Threw(getContractError(error, ContractErrorContext(p)))>>)

\* The encoding moved inside the try block.
EncodeThrew_caught(p, error) == Catch(p, error)

\* encodeFunctionData throws on line 105, before the try block.
EncodeThrew(p, error) == Did(<<>>, <<Threw(error)>>)

\* The decoding moved after the try block.
DecodeThrew_uncaught(p, error) == Did(<<>>, <<Threw(error)>>)

\* decodeFunctionResult throws on line 112, inside the try block.
DecodeThrew(p, error) == Catch(p, error)

\* The raw response returned as it came.
Fulfilled_noDecode(p, data) ==
    Did(<<>>, <<Returned([shape |-> "raw", vals |-> OrEmpty(data)])>>)

\* The continuation after call resolved with { data }.
Fulfilled(p, data) ==
    LET in == DecodeInput(p, data)
        r == decodeFunctionResult(in)
        ev == [step |-> "decode", in |-> in, out |-> r]
        c == DecodeThrew(p, r.error)
    IN  IF r.ok THEN Did(<<ev>>, <<Returned(r.value)>>)
        ELSE Did(<<ev>> \o c.log, c.outcomes)

\* The call issued once more before giving up.
Rejected_retry(p, error) ==
    LET again == [step |-> "call",
                  request |-> CallParameters(p, encodeFunctionData(EncodeInput(p)).value)]
    IN  Did(<<again>> \o Catch(p, error).log, Catch(p, error).outcomes)

\* The continuation after call rejected with error.
Rejected(p, error) == Catch(p, error)

\* The synchronous stretch up to the await.
Begun(p) ==
    LET in == EncodeInput(p)
        r == encodeFunctionData(in)
        ev == [step |-> "encode", in |-> in, out |-> r]
        t == EncodeThrew(p, r.error)
    IN  IF r.ok
        THEN Did(<<ev, [step |-> "call", request |-> CallParameters(p, r.value)]>>, <<>>)
        ELSE Did(<<ev>> \o t.log, t.outcomes)

CallsIn(events) == SelectSeq(events, LAMBDA e : e.step = "call")

Init ==
    /\ pc = [i \in Invocations |-> "idle"]
    /\ parameters = [i \in Invocations |-> NoParameters]
    /\ promise = [i \in Invocations |-> [state |-> "none"]]
    /\ log = [i \in Invocations |-> <<>>]
    /\ outcomes = [i \in Invocations |-> <<>>]

\* The caller invokes readContract(client, p): lines 104-111, up to the await.
readContract(i, p) ==
    /\ pc[i] = "idle"
    /\ parameters' = [parameters EXCEPT ![i] = p]
    /\ log' = [log EXCEPT ![i] = Begun(p).log]
    /\ outcomes' = [outcomes EXCEPT ![i] = Begun(p).outcomes]
    /\ IF CallsIn(Begun(p).log) # <<>>
       THEN /\ pc' = [pc EXCEPT ![i] = "pending"]
            /\ promise' = [promise EXCEPT ![i] = [state |-> "pending"]]
       ELSE /\ pc' = [pc EXCEPT ![i] = "done"]
            /\ UNCHANGED promise

\* The call executor resolves the promise of invocation i.
callResolves(i, data) ==
    /\ pc[i] = "pending"
    /\ promise' = [promise EXCEPT ![i] = [state |-> "fulfilled", data |-> data]]
    /\ pc' = [pc EXCEPT ![i] = "settled"]
    /\ UNCHANGED <<parameters, log, outcomes>>

\* The call executor rejects the promise of invocation i.
callRejects(i, error) ==
    /\ pc[i] = "pending"
    /\ promise' = [promise EXCEPT ![i] = [state |-> "rejected", error |-> error]]
    /\ pc' = [pc EXCEPT ![i] = "settled"]
    /\ UNCHANGED <<parameters, log, outcomes>>

\* Invocation i resumes after the await with { data }: lines 107, 112-126.
resumeFulfilled(i) ==
    /\ pc[i] = "settled"
    /\ promise[i].state = "fulfilled"
    /\ log' = [log EXCEPT ![i] = @ \o Fulfilled(Locals(i), promise[i].data).log]
    /\ outcomes' = [outcomes EXCEPT
                      ![i] = @ \o Fulfilled(Locals(i), promise[i].data).outcomes]
    /\ pc' = [pc EXCEPT ![i] = "done"]
    /\ UNCHANGED <<parameters, promise>>

\* Invocation i resumes after the await with a thrown error: lines 107, 118-126.
resumeRejected(i) ==
    /\ pc[i] = "settled"
    /\ promise[i].state = "rejected"
    /\ log' = [log EXCEPT ![i] = @ \o Rejected(Locals(i), promise[i].error).log]
    /\ outcomes' = [outcomes EXCEPT
                      ![i] = @ \o Rejected(Locals(i), promise[i].error).outcomes]
    /\ pc' = [pc EXCEPT ![i] = "done"]
    /\ UNCHANGED <<parameters, promise>>

Next ==
    \/ \E i \in Invocations, p \in ParamSet : readContract(i, p)
    \/ \E i \in Invocations, data \in CallData : callResolves(i, data)
    \/ \E i \in Invocations, error \in CallErrors : callRejects(i, error)
    \/ \E i \in Invocations : resumeFulfilled(i)
    \/ \E i \in Invocations : resumeRejected(i)

Spec == Init /\ [][Next]_vars

----------------------------------------------------------------------------
(* Vocabulary of the properties *)

Done(i) == pc[i] = "done"

EventsOf(i, step) == SelectSeq(log[i], LAMBDA e : e.step = step)

StepsOf(i) == [k \in 1..Len(log[i]) |-> log[i][k].step]

\* The bytes the call executor returned; an absent response is empty.
BytesOf(data) == IF data.defined THEN data.bytes ELSE <<>>

\* The context of the invocation matches its abi, address, args, functionName.
ContextOfInvocation(context, i) ==
    /\ context.abi = parameters[i].abi
    /\ context.address = parameters[i].address
    /\ context.args = parameters[i].args
    /\ context.functionName = parameters[i].functionName

\* The descriptor the invocation resolved.
DescriptorOf(i) ==
    resolve(parameters[i].abi, parameters[i].functionName, parameters[i].args).value

CallFailed(i) == promise[i].state = "rejected"

CallSucceeded(i) == promise[i].state = "fulfilled"

\* The error was handed to getContractError once, with the invocation's
\* context, and the caller received what getContractError returned.
TranslatedOnce(i, error) ==
    LET t == EventsOf(i, "translate") IN
    /\ Len(t) = 1
    /\ t[1].error = error
    /\ ContextOfInvocation(t[1].context, i)
    /\ outcomes[i] = <<Threw(t[1].out)>>
    /\ t[1].out # error

----------------------------------------------------------------------------
(* C1 *)

\* C1: whenever call fails with error e, getContractError is invoked exactly
\* once, with e and the invocation's abi, address, args and functionName, and
\* the caller receives getContractError's output: not e itself, not nothing.
C1_CallErrorTranslatedOnce ==
    \A i \in Invocations :
        /\ Len(EventsOf(i, "translate")) <= 1
        /\ (CallFailed(i) /\ Done(i)) => TranslatedOnce(i, promise[i].error)

C1_Witness ==
    \E i \in Invocations :
        /\ Done(i)
        /\ CallFailed(i)
        /\ promise[i].error.name = "AbortError"
        /\ Len(EventsOf(i, "translate")) = 1

----------------------------------------------------------------------------
(* C2 *)

\* C2: when resolution or encoding fails, the invocation ends at once with
\* that very error: call, decodeFunctionResult and getContractError are never
\* invoked for it.
C2_EncodeErrorRaisedLocally ==
    \A i \in Invocations :
        LET enc == encodeFunctionData(EncodeInput(parameters[i])) IN
        (pc[i] # "idle" /\ ~enc.ok) =>
            /\ Done(i)
            /\ StepsOf(i) = <<"encode">>
            /\ promise[i].state = "none"
            /\ outcomes[i] = <<Threw(enc.error)>>

C2_Witness ==
    \E i, j \in Invocations :
        /\ Done(i) /\ Done(j)
        /\ outcomes[i] = <<Threw(Err("AbiFunctionNotFoundError", <<>>))>>
        /\ outcomes[j] = <<Threw(Err("AbiEncodingError", <<>>))>>

----------------------------------------------------------------------------
(* C3 *)

\* Step k of invocation i raised an error.
StepRaised(i, k) ==
    LET e == log[i][k] IN
    \/ e.step \in {"encode", "decode"} /\ ~e.out.ok
    \/ e.step = "call" /\ CallFailed(i)
    \/ e.step = "translate"

\* One terminal outcome, and never a value once a step raised an error.
OneTerminalOutcome(i) ==
    /\ Len(outcomes[i]) <= 1
    /\ Done(i) <=> Len(outcomes[i]) = 1
    /\ (\E k \in 1..Len(log[i]) : StepRaised(i, k)) =>
           \A n \in 1..Len(outcomes[i]) : outcomes[i][n].kind = "threw"

\* C3 as stated: one terminal outcome per invocation, and once any step
\* (encode, call, decode, translate) raised an error no later step runs.
C3_NoStepAfterError ==
    \A i \in Invocations :
        /\ OneTerminalOutcome(i)
        /\ \A k \in 1..Len(log[i]) : StepRaised(i, k) => k = Len(log[i])

\* C3 amended: one terminal outcome per invocation; after an error in encode
\* or translate no later step runs; after an error in call or decode the only
\* later step is the one translation of that error.
C3_OnlyTranslationAfterError ==
    \A i \in Invocations :
        /\ OneTerminalOutcome(i)
        /\ \A k \in 1..Len(log[i]) :
               StepRaised(i, k) =>
                   IF log[i][k].step \in {"call", "decode"}
                   THEN /\ Len(log[i]) <= k + 1
                        /\ Len(log[i]) = k + 1 => log[i][k + 1].step = "translate"
                        /\ Done(i) => Len(log[i]) = k + 1
                   ELSE k = Len(log[i])

C3_Witness ==
    \E i \in Invocations :
        /\ Done(i)
        /\ CallFailed(i)
        /\ StepsOf(i) = <<"encode", "call", "translate">>
        /\ Len(outcomes[i]) = 1
        /\ outcomes[i][1].kind = "threw"

----------------------------------------------------------------------------
(* C4 *)

\* The call succeeded with an empty or absent response.
EmptyResponse(i) ==
    /\ Done(i)
    /\ CallSucceeded(i)
    /\ (~promise[i].data.defined \/ promise[i].data.bytes = <<>>)

\* The decoder was invoked once, on the empty byte sequence; with no declared
\* outputs the invocation returns the empty result.
DecodedEmpty(i) ==
    LET d == EventsOf(i, "decode") IN
    /\ Len(d) = 1
    /\ d[1].in.data = <<>>
    /\ DescriptorOf(i).outputs = <<>> =>
           outcomes[i] = <<Returned(DecodedValue(<<>>))>>

\* C4 as stated: on an empty or absent response the decoder is given the
\* empty byte sequence; the invocation succeeds with the empty result if the
\* descriptor has no outputs, and otherwise fails with AbiDecodingError.
C4_EmptyResponseFailsWithDecodingError ==
    \A i \in Invocations :
        EmptyResponse(i) =>
            /\ DecodedEmpty(i)
            /\ DescriptorOf(i).outputs # <<>> =>
                   /\ Len(outcomes[i]) = 1
                   /\ outcomes[i][1].kind = "threw"
                   /\ outcomes[i][1].error.name = "AbiDecodingError"

\* C4 amended: as above, but with declared outputs the decoder fails with
\* AbiDecodingError and the invocation fails with what getContractError
\* returns for that error.
C4_EmptyResponseFailsTranslated ==
    \A i \in Invocations :
        EmptyResponse(i) =>
            /\ DecodedEmpty(i)
            /\ DescriptorOf(i).outputs # <<>> =>
                   LET out == EventsOf(i, "decode")[1].out IN
                   /\ ~out.ok
                   /\ out.error.name = "AbiDecodingError"
                   /\ TranslatedOnce(i, out.error)

C4_Witness ==
    \E i, j \in Invocations :
        /\ EmptyResponse(i)
        /\ ~promise[i].data.defined
        /\ DescriptorOf(i).outputs # <<>>
        /\ EmptyResponse(j)
        /\ DescriptorOf(j).outputs = <<>>

----------------------------------------------------------------------------
(* C5 *)

\* The call succeeded with fewer bytes than the declared outputs need.
ShortResponse(i) ==
    /\ Done(i)
    /\ CallSucceeded(i)
    /\ Len(BytesOf(promise[i].data)) < WordSize * Len(DescriptorOf(i).outputs)

\* C5 as stated: on a response shorter than the declared outputs need, the
\* invocation returns no value and fails with AbiDecodingError.
C5_ShortResponseFailsWithDecodingError ==
    \A i \in Invocations :
        ShortResponse(i) =>
            /\ Len(outcomes[i]) = 1
            /\ outcomes[i][1].kind = "threw"
            /\ outcomes[i][1].error.name = "AbiDecodingError"

\* C5 amended: on such a response the invocation returns no value; the
\* decoder fails with AbiDecodingError and the invocation fails with what
\* getContractError returns for that error.
C5_ShortResponseFailsTranslated ==
    \A i \in Invocations :
        ShortResponse(i) =>
            LET d == EventsOf(i, "decode") IN
            /\ Len(d) = 1
            /\ ~d[1].out.ok
            /\ d[1].out.error.name = "AbiDecodingError"
            /\ TranslatedOnce(i, d[1].out.error)

C5_Witness ==
    \E i \in Invocations :
        /\ ShortResponse(i)
        /\ promise[i].data = Hex(Zeros(16))
        /\ DescriptorOf(i).outputs = <<"uint256">>

----------------------------------------------------------------------------
(* C6 *)

\* C6: a returned value is the decoder's result for the bytes call returned,
\* decoded with the abi, functionName and args the calldata was encoded with;
\* balanceOf(address) returns (uint256) answered by the word 424122 returns
\* 424122.
C6_ReturnsDecodedResponse ==
    \A i \in Invocations :
        LET e == EventsOf(i, "encode")
            expected == decodeFunctionResult(
                [abi |-> e[1].in.abi, args |-> e[1].in.args,
                 functionName |-> e[1].in.functionName,
                 data |-> BytesOf(promise[i].data)])
        IN  /\ (Done(i) /\ CallSucceeded(i)) =>
                   /\ e[1].in = EncodeInput(parameters[i])
                   /\ expected.ok => outcomes[i] = <<Returned(expected.value)>>
            /\ (\E n \in 1..Len(outcomes[i]) : outcomes[i][n].kind = "returned") =>
                   /\ Done(i)
                   /\ CallSucceeded(i)
                   /\ expected.ok
            /\ ( /\ Done(i)
                 /\ CallSucceeded(i)
                 /\ parameters[i].abi = AbiDoc
                 /\ parameters[i].functionName = "balanceOf"
                 /\ promise[i].data = Hex(Word(424122)) ) =>
                   outcomes[i] = <<Returned([shape |-> "single", vals |-> <<424122>>])>>

C6_Witness ==
    \E i \in Invocations :
        /\ Done(i)
        /\ parameters[i].abi = AbiDoc
        /\ parameters[i].address = Token
        /\ promise[i] = [state |-> "fulfilled", data |-> Hex(Word(424122))]
        /\ outcomes[i] = <<Returned(DecodedValue(<<424122>>))>>

----------------------------------------------------------------------------
(* C7 *)

\* What an invocation given p does when it runs alone and its call settles
\* as settled: its collaborators' invocations and its outcomes, by position.
Alone(p, position, settled) ==
    IF position = "idle" THEN Did(<<>>, <<>>)
    ELSE IF position \in {"pending", "settled"} \/ settled.state = "none"
    THEN Begun(p)
    ELSE IF settled.state = "fulfilled"
    THEN Did(Begun(p).log \o Fulfilled(p, settled.data).log,
             Fulfilled(p, settled.data).outcomes)
    ELSE Did(Begun(p).log \o Rejected(p, settled.error).log,
             Rejected(p, settled.error).outcomes)

\* The invocations whose state a step changes.
Touched ==
    {i \in Invocations :
        \/ pc'[i] # pc[i]
        \/ parameters'[i] # parameters[i]
        \/ promise'[i] # promise[i]
        \/ log'[i] # log[i]
        \/ outcomes'[i] # outcomes[i]}

\* C7: whatever the interleaving, the call request, the returned value and
\* the raised error of every invocation are those of the same invocation run
\* alone with the same parameters and the same answer of the call executor,
\* and a step of one invocation changes nothing of another.
C7_InvocationsIndependent ==
    /\ [](\A i \in Invocations :
              /\ log[i] = Alone(parameters[i], pc[i], promise[i]).log
              /\ outcomes[i] = Alone(parameters[i], pc[i], promise[i]).outcomes)
    /\ [][Cardinality(Touched) <= 1]_vars

C7_Witness ==
    \E i, j \in Invocations :
        /\ i # j
        /\ Done(i)
        /\ CallSucceeded(i)
        /\ pc[j] = "settled"
        /\ parameters[i].abi # parameters[j].abi
        /\ parameters[i].address # parameters[j].address

----------------------------------------------------------------------------
(* C8 *)

\* C8: the steps of an invocation run in the order encode, call, then decode
\* or translate; call is invoked only after a successful encode and at most
\* once; decode runs only after call returned successfully, and never after
\* call failed.
C8_StepOrder ==
    \A i \in Invocations :
        /\ StepsOf(i) \in
               { <<>>,
                 <<"encode">>,
                 <<"encode", "call">>,
                 <<"encode", "call", "decode">>,
                 <<"encode", "call", "translate">>,
                 <<"encode", "call", "decode", "translate">> }
        /\ Len(EventsOf(i, "call")) <= 1
        /\ Len(EventsOf(i, "call")) = 1 => log[i][1].out.ok
        /\ Len(EventsOf(i, "decode")) = 1 => CallSucceeded(i)
        /\ CallFailed(i) => Len(EventsOf(i, "decode")) = 0
        /\ (Done(i) /\ CallFailed(i)) => StepsOf(i) = <<"encode", "call", "translate">>

C8_Witness ==
    \E i, j \in Invocations :
        /\ Done(i)
        /\ CallFailed(i)
        /\ promise[i].error.name = "HttpRequestError"
        /\ Len(EventsOf(i, "call")) = 1
        /\ Done(j)
        /\ StepsOf(j) = <<"encode", "call", "decode">>

----------------------------------------------------------------------------
(* C9 *)

\* C9: the request handed to call has to = address and data = the encoder's
\* calldata, also when the parameters carry a to or data of their own;
\* account, blockNumber and blockTag are forwarded unchanged; abi, args and
\* functionName are not forwarded.
C9_CallRequest ==
    \A i \in Invocations :
        \A n \in 1..Len(EventsOf(i, "call")) :
            LET request == EventsOf(i, "call")[n].request
                p == parameters[i]
            IN  /\ request.to = p.address
                /\ request.data = EventsOf(i, "encode")[1].out.value
                /\ request.data = encodeFunctionData(EncodeInput(p)).value
                /\ \A k \in {"account", "blockNumber", "blockTag"} :
                       /\ k \in DOMAIN request <=> k \in DOMAIN p
                       /\ k \in DOMAIN p => request[k] = p[k]
                /\ DOMAIN request \cap {"abi", "args", "functionName"} = {}

C9_Witness ==
    \E i, j \in Invocations :
        /\ Len(EventsOf(i, "call")) = 1
        /\ {"data", "to", "account"} \subseteq DOMAIN parameters[i]
        /\ parameters[i].to # parameters[i].address
        /\ Len(EventsOf(j, "call")) = 1
        /\ "blockNumber" \in DOMAIN parameters[j]

----------------------------------------------------------------------------
(* C10 *)

\* C10: an error of decodeFunctionResult after a successful call is handed
\* to getContractError exactly once, with the invocation's abi, address, args
\* and functionName; the caller receives getContractError's output, not the
\* decoder's error, and call is not invoked again.
C10_DecodeErrorTranslatedOnce ==
    \A i \in Invocations :
        \A n \in 1..Len(EventsOf(i, "decode")) :
            LET out == EventsOf(i, "decode")[n].out IN
            (Done(i) /\ ~out.ok) =>
                /\ CallSucceeded(i)
                /\ TranslatedOnce(i, out.error)
                /\ Len(EventsOf(i, "call")) = 1

C10_Witness ==
    \E i \in Invocations :
        /\ Done(i)
        /\ promise[i] = [state |-> "fulfilled", data |-> Hex(<<>>)]
        /\ StepsOf(i) = <<"encode", "call", "decode", "translate">>
        /\ outcomes[i][1].error.cause.name = "AbiDecodingError"

====
